---- MODULE Spec2Model ----
(***************************************************************************)
(* Model of oauth2ms (src/oauth2ms/oauth2ms.py): one invocation of main(), *)
(* from argument parsing to process exit.  The identity provider (msal),   *)
(* the browser, gpg and the HTTP client that hits the redirect listener    *)
(* are the environment; their answers are nondeterministic choices.        *)
(***************************************************************************)
EXTENDS Integers, Sequences, FiniteSets, TLC

\* ------------------------------------------------------------------ bounds
\* Connections that may reach the redirect port during one run.
MaxRequests == 2
\* Accounts a token cache loaded from the credential file may hold.
MaxAccounts == 1

\* ------------------------------------------------------------- vocabulary
\* The keys validate_config asks for (lines 78-86).
RequiredKeys ==
    {"tenant_id", "client_id", "redirect_host", "redirect_port",
     "redirect_path", "scopes", "client_secret"}

\* Names that load_config and build_new_app_state read as module globals
\* (lines 38, 112, 117).  main() binds them as its own locals (lines
\* 215-235), so a run started through main() finds none of them in the
\* module namespace; an embedding that imports the module may bind them.
GlobalNames == {"APP_NAME", "SUCCESS_MESSAGE", "cmdline_args"}

\* Values of config["redirect_path"], as character sequences.
RedirectPaths == {<<"/">>, <<"/", "c">>, <<"/", "c", "/">>}

\* Configuration files: the file is missing, or it is a JSON object with a
\* set of keys (at most one required key absent) and a redirect path.
ConfigKeySets ==
    {RequiredKeys} \cup {RequiredKeys \ {k} : k \in RequiredKeys}

ConfigFiles ==
    {[exists |-> FALSE, keys |-> {}, redirect_path |-> <<"/">>]}
    \cup [exists : {TRUE}, keys : ConfigKeySets, redirect_path : RedirectPaths]

\* The text of a credential file: plaintext or gpg armor (enc), around a
\* body that is invalid JSON or a JSON object with or without token_cache.
NoBody == [valid |-> FALSE, has_cache |-> FALSE, accounts |-> 0, rev |-> 0]

Bodies ==
    {NoBody, [valid |-> TRUE, has_cache |-> FALSE, accounts |-> 0, rev |-> 0]}
    \cup {[valid |-> TRUE, has_cache |-> TRUE, accounts |-> n, rev |-> 0] :
             n \in 0..MaxAccounts}

NoFile == [exists |-> FALSE, enc |-> FALSE, body |-> NoBody]

CredentialFiles ==
    {NoFile} \cup [exists : {TRUE}, enc : BOOLEAN, body : Bodies]

\* state = str(uuid.uuid4()) (line 103): the state token of the flow, as
\* embedded in the authorization URL.
FlowState == "s1"

\* Request URIs a client may send to the redirect port: a path and an
\* ordered query string.
Queries ==
    {<< >>,
     <<[k |-> "code", v |-> "abc"]>>,
     <<[k |-> "code", v |-> "abc"], [k |-> "state", v |-> "s1"]>>,
     <<[k |-> "code", v |-> "abc"], [k |-> "state", v |-> "other"]>>,
     <<[k |-> "state", v |-> "s1"], [k |-> "code", v |-> "abc"]>>}

RequestURIs == [path : RedirectPaths, query : Queries]

NoURI == [path |-> << >>, query |-> << >>]

\* ------------------------------------------------------------------ state
VARIABLES
    module_globals,    \* names bound in the module namespace
    cmdline_args,      \* parsed arguments (line 235)
    config_file,       \* $XDG_CONFIG_HOME/oauth2ms/config.json
    credentials_file,  \* save_data_path("oauth2ms")/credentials.bin
    pc,                \* position of the run in main()
    crypt,             \* main's crypt is not None
    app_state,         \* "None", "loaded" (from credentials) or "new"
    cache,             \* the msal.SerializableTokenCache of the run
    cache_bound,       \* main's local name `cache` is bound (line 265)
    token,             \* "None" or "access_token"
    redirect_uri,      \* normalised redirect path of config["redirect_uri"]
    listener,          \* "unbound", "listening" or "closed"
    network,           \* connections waiting at the redirect port
    arrived,           \* connections made to the port so far
    handled,           \* URIs of the requests the listener handled
    auth_response,     \* wsgi_app.last_request_uri as read at line 124
    auth_url_built,    \* get_auth_url was called (line 111)
    browser_opened,    \* webbrowser.open was called (line 120)
    exchange_calls,    \* calls of acquire_token_by_authorization_code
    load_calls,        \* calls of build_app_state_from_credentials
    bnas_calls,        \* calls of build_new_app_state
    silent_result,     \* what fetch_token_from_cache met
    changed_in_run,    \* the cache reported a state change in this run
    file_writes,       \* writes to the credential file
    stdout,            \* lines printed to standard output
    exit_status,       \* -1 while running, else the process exit status
    exit_cause,        \* how the process ended
    race               \* two invocations sharing one credential file

inputs == <<module_globals, cmdline_args, config_file>>
flow == <<redirect_uri, listener, network, arrived, handled, auth_response,
          auth_url_built, browser_opened, exchange_calls>>
vars == <<module_globals, cmdline_args, config_file, credentials_file, pc,
          crypt, app_state, cache, cache_bound, token, redirect_uri,
          listener, network, arrived, handled, auth_response,
          auth_url_built, browser_opened, exchange_calls, load_calls,
          bnas_calls, silent_result, changed_in_run, file_writes, stdout,
          exit_status, exit_cause, race>>

\* ---------------------------------------------------------------- helpers
\* An uncaught exception or sys.exit(1): the interpreter exits with status 1.
Die(cause) ==
    /\ pc' = "done"
    /\ exit_status' = 1
    /\ exit_cause' = cause

Running(next) ==
    /\ pc' = next
    /\ UNCHANGED <<exit_status, exit_cause>>

\* print(...): each call puts one line on standard output.
Stdout(lines) == stdout' = stdout \o lines

EmptyCache == [accounts |-> 0, rev |-> 0, has_state_changed |-> FALSE]

\* gpg.decrypt followed by str(): the plaintext of an armored text, the
\* empty string for anything that is not a gpg message.
gpg_decrypt(text) ==
    IF text.enc THEN [enc |-> FALSE, body |-> text.body]
    ELSE [enc |-> FALSE, body |-> NoBody]

\* str(gpg.encrypt(config_json, fingerprint)): armor around the JSON text.
gpg_encrypt(text) == [enc |-> TRUE, body |-> text.body]

\* json.loads that takes any text for a JSON object.
json_loads_lenient(text) == [text.body EXCEPT !.valid = TRUE]

\* json.loads: the parsed object; armor and broken text do not parse.
json_loads(text) ==
    IF text.enc THEN NoBody ELSE text.body

\* json.dumps(config) with config["token_cache"] = cache.serialize().
json_dumps(c) ==
    [enc |-> FALSE,
     body |-> [valid |-> TRUE, has_cache |-> TRUE,
               accounts |-> c.accounts, rev |-> c.rev]]

\* The token_cache test left out.
has_token_cache_any(config) == TRUE

\* config.get("token_cache") is not None (line 181).
has_token_cache(config) == config.has_cache

\* validate_config without its test for "scopes".
validate_config_partial(config) ==
    \A k \in RequiredKeys \ {"scopes"} : k \in config.keys

\* validate_config (lines 77-88): all seven keys are in the config.
validate_config(config) == \A k \in RequiredKeys : k \in config.keys

\* Lines 105-108: drop a trailing "/" unless the path is just "/".
normalize_redirect_path(p) ==
    IF p # <<"/">> /\ p[Len(p)] = "/" THEN SubSeq(p, 1, Len(p) - 1) ELSE p

\* parse_qs applied to the whole request URI (line 126): the URI is split
\* at "&" and "=" only, so the first key keeps everything before its "=",
\* that is the URI up to "?" followed by the first parameter name.
parse_qs_keys(uri) ==
    {[prefix |-> IF i = 1 THEN uri.path ELSE << >>, name |-> uri.query[i].k] :
        i \in 1..Len(uri.query)}

\* The test for the code left out.
has_code_unchecked(uri, ruri) == TRUE

\* Lines 128-129: code_key = config["redirect_uri"] + "?code" is a key of
\* the parsed response.
has_code(uri, ruri) ==
    [prefix |-> ruri, name |-> "code"] \in parse_qs_keys(uri)

\* `if cca.get_accounts:` (line 157) tests the bound method, not the list
\* it returns: the test is true whatever the cache holds.
get_accounts_test(accounts) == TRUE

\* Line 250, `app_state, token = build_new_app_state(crypt)`, when the call
\* returned None: the unpacking raises TypeError.
UnpackNone == Die("TypeError")

\* build_app_state_from_credentials (lines 163-190) as a function of the
\* file and of the encryption setting: None, sys.exit(1), or an app state
\* with the deserialized cache.
load(file, cr) ==
    IF ~file.exists
    THEN [result |-> "None", cache |-> EmptyCache]
    ELSE LET raw == [enc |-> file.enc, body |-> file.body]
             credentials == IF cr THEN gpg_decrypt(raw) ELSE raw
             config == json_loads(credentials)
         IN  IF ~config.valid
             THEN [result |-> "sys.exit", cache |-> EmptyCache]
             ELSE IF ~has_token_cache(config)
             THEN [result |-> "None", cache |-> EmptyCache]
             ELSE [result |-> "app_state",
                   cache |-> [accounts |-> config.accounts,
                              rev |-> config.rev,
                              has_state_changed |-> FALSE]]

\* The save of lines 267-275 as a function: the credential file it leaves
\* behind, given the file before, the cache and the encryption setting.
\* Line 275 is inside `if crypt:`.
save(file, c, cr) ==
    IF cr
    THEN LET text == gpg_encrypt(json_dumps(c))
         IN  [exists |-> TRUE, enc |-> text.enc, body |-> text.body]
    ELSE file

\* main from line 259 to the exit (lines 259-278) as a function of the
\* --encode-xoauth2 flag, for a run that holds token tok, cache c and
\* encryption setting cr in front of the file: what is printed, which
\* cache reaches the test of line 266, the file left behind and the exit
\* status.
main_tail(encode, tok, c, cr, file) ==
    LET printed == IF tok = "None" THEN << >>
                   ELSE IF encode THEN <<"xoauth2">> ELSE <<"token">>
        bound == tok # "None" /\ ~encode
    IN  IF tok # "None" /\ encode /\ c.accounts = 0
        THEN [out |-> << >>, cache_bound |-> FALSE, file |-> file,
              status |-> 1]
        ELSE IF ~bound
        THEN [out |-> printed, cache_bound |-> FALSE, file |-> file,
              status |-> 1]
        ELSE [out |-> printed, cache_bound |-> TRUE,
              file |-> IF c.has_state_changed THEN save(file, c, cr)
                       ELSE file,
              status |-> 0]

\* The two invocations of the concurrent model.
Procs == {1, 2}

\* An invocation before its first step: position, --encode-xoauth2, its
\* token cache, token and local `cache` binding, and the set of
\* invocations whose cache updates its cache holds.
FreshProc(encode) ==
    [pc |-> "load", encode |-> encode, cache |-> EmptyCache,
     token |-> "None", cache_bound |-> FALSE, has |-> {}, status |-> -1]

\* The concurrent model at rest, as a single run sees it.
RaceIdle ==
    [file |-> NoFile, holds |-> {}, writer |-> 0, wrote |-> {},
     cr |-> FALSE, proc |-> [p \in Procs |-> FreshProc(FALSE)]]

\* ------------------------------------------------------------------- Init
Init ==
    /\ module_globals \in SUBSET GlobalNames
    /\ cmdline_args \in [encode_xoauth2 : BOOLEAN,
                         encrypt_using_fingerprint : BOOLEAN,
                         gpg_home : BOOLEAN,
                         no_browser : BOOLEAN]
    /\ config_file \in ConfigFiles
    /\ credentials_file \in CredentialFiles
    /\ pc = "parse_args"
    /\ crypt = FALSE
    /\ app_state = "None"
    /\ cache = EmptyCache
    /\ cache_bound = FALSE
    /\ token = "None"
    /\ redirect_uri = << >>
    /\ listener = "unbound"
    /\ network = 0
    /\ arrived = 0
    /\ handled = << >>
    /\ auth_response = NoURI
    /\ auth_url_built = FALSE
    /\ browser_opened = FALSE
    /\ exchange_calls = 0
    /\ load_calls = 0
    /\ bnas_calls = 0
    /\ silent_result = "not_called"
    /\ changed_in_run = FALSE
    /\ file_writes = 0
    /\ stdout = << >>
    /\ exit_status = -1
    /\ exit_cause = "running"
    /\ race = RaceIdle

\* ---------------------------------------------------------------- actions
\* main, lines 235-245: parse the arguments and build crypt.  gpg_args is
\* bound only under --gpg-home, and read whenever -e is given.
ParseArgs ==
    /\ pc = "parse_args"
    /\ IF cmdline_args.encrypt_using_fingerprint
       THEN IF cmdline_args.gpg_home
            THEN crypt' = TRUE /\ Running("load_credentials")
            ELSE crypt' = crypt /\ Die("UnboundLocalError")
       ELSE crypt' = FALSE /\ Running("load_credentials")
    /\ UNCHANGED <<inputs, race, load_calls,
                   credentials_file, app_state, cache, cache_bound,
                   token, flow, bnas_calls, silent_result, changed_in_run,
                   file_writes, stdout>>

\* build_app_state_from_credentials (lines 163-190) and main's use of its
\* result (lines 247-257).
BuildAppStateFromCredentials ==
    /\ pc = "load_credentials"
    /\ load_calls' = load_calls + 1
    /\ IF ~credentials_file.exists
       THEN /\ Running("build_new_app_state")
            /\ UNCHANGED <<app_state, cache, stdout>>
       ELSE LET raw == [enc |-> credentials_file.enc,
                        body |-> credentials_file.body]
                credentials == IF crypt THEN gpg_decrypt(raw) ELSE raw
                config == json_loads(credentials)
            IN  IF ~config.valid
                THEN /\ Stdout(<<"diag:not_json">>)
                     /\ Die("sys.exit")
                     /\ UNCHANGED <<app_state, cache>>
                ELSE IF ~has_token_cache(config)
                THEN /\ Running("build_new_app_state")
                     /\ UNCHANGED <<app_state, cache, stdout>>
                ELSE /\ app_state' = "loaded"
                     /\ cache' = [accounts |-> config.accounts,
                                  rev |-> config.rev,
                                  has_state_changed |-> FALSE]
                     /\ Running("fetch_token")
                     /\ UNCHANGED stdout
    /\ UNCHANGED <<inputs, race, credentials_file, crypt, cache_bound, token,
                   flow,
                   bnas_calls, silent_result, changed_in_run, file_writes>>

\* build_new_app_state, lines 90-101: a fresh cache, load_config and
\* validate_config.  load_config reads the global APP_NAME (line 38).
LoadAndValidateConfig ==
    /\ pc = "build_new_app_state"
    /\ bnas_calls' = bnas_calls + 1
    /\ cache' = EmptyCache
    /\ IF "APP_NAME" \notin module_globals
       THEN Die("NameError") /\ UNCHANGED stdout
       ELSE IF ~config_file.exists
       THEN /\ Stdout(<<"diag:config_not_found", "diag:xdg_config_home">>)
            /\ UnpackNone
       ELSE IF ~validate_config(config_file)
       THEN /\ Stdout(<<"diag:invalid_config", "diag:required_keys">>)
            /\ UnpackNone
       ELSE Running("start_listener") /\ UNCHANGED stdout
    /\ UNCHANGED <<inputs, race, load_calls,
                   credentials_file, crypt, app_state, cache_bound,
                   token, flow, silent_result, changed_in_run, file_writes>>

\* build_new_app_state, lines 103-120: build the redirect URI and the
\* authorization URL, bind the listener, then print the URL or open the
\* browser.  SUCCESS_MESSAGE and cmdline_args are read as globals.
StartListener ==
    /\ pc = "start_listener"
    /\ redirect_uri' = normalize_redirect_path(config_file.redirect_path)
    /\ auth_url_built' = TRUE
    /\ IF "SUCCESS_MESSAGE" \notin module_globals
       THEN /\ Die("NameError")
            /\ UNCHANGED <<listener, browser_opened, stdout>>
       ELSE /\ listener' = "listening"
            /\ IF "cmdline_args" \notin module_globals
               THEN /\ Die("NameError")
                    /\ UNCHANGED <<browser_opened, stdout>>
               ELSE /\ Running("handle_request")
                    /\ IF cmdline_args.no_browser
                       THEN Stdout(<<"prompt:auth_url">>)
                            /\ UNCHANGED browser_opened
                       ELSE browser_opened' = TRUE /\ UNCHANGED stdout
    /\ UNCHANGED <<inputs, race, load_calls,
                   credentials_file, crypt, app_state, cache,
                   cache_bound, token, network, arrived, handled,
                   auth_response, exchange_calls, bnas_calls, silent_result,
                   changed_in_run, file_writes>>

\* Environment: a client connects to the redirect port while it is bound.
RequestArrives ==
    /\ listener = "listening"
    /\ pc # "done"
    /\ arrived < MaxRequests
    /\ network' = network + 1
    /\ arrived' = arrived + 1
    /\ UNCHANGED <<inputs, race, load_calls,
                   credentials_file, pc, crypt, app_state, cache,
                   cache_bound, token, redirect_uri, listener, handled,
                   auth_response, auth_url_built, browser_opened,
                   exchange_calls, bnas_calls, silent_result, changed_in_run,
                   file_writes, stdout, exit_status, exit_cause>>

\* A handle_request that returns when no connection is waiting, as it
\* would under a listener timeout: nothing is handled, nothing recorded.
HandleRequest_NoWait ==
    /\ pc = "handle_request"
    /\ IF network > 0
       THEN /\ \E uri \in RequestURIs :
                  /\ handled' = Append(handled, uri)
                  /\ auth_response' = uri
            /\ network' = network - 1
       ELSE UNCHANGED <<handled, auth_response, network>>
    /\ Running("server_close")
    /\ UNCHANGED <<inputs, race, load_calls, credentials_file, crypt, app_state,
                   cache, cache_bound, token, redirect_uri, listener, arrived,
                   auth_url_built, browser_opened, exchange_calls, bnas_calls,
                   silent_result, changed_in_run, file_writes, stdout>>

\* A listener that keeps serving while connections are waiting.
HandleRequest_KeepServing ==
    /\ pc = "handle_request"
    /\ network > 0
    /\ \E uri \in RequestURIs :
          /\ handled' = Append(handled, uri)
          /\ auth_response' = uri
    /\ network' = network - 1
    /\ Running(IF network > 1 THEN "handle_request" ELSE "server_close")
    /\ UNCHANGED <<inputs, race, load_calls,
                   credentials_file, crypt, app_state,
                   cache, cache_bound, token, redirect_uri, listener, arrived,
                   auth_url_built, browser_opened, exchange_calls, bnas_calls,
                   silent_result, changed_in_run, file_writes, stdout>>

\* Lines 122-124: http_server.handle_request() blocks for one request, the
\* WSGI app (lines 72-75) stores its URI, and the URI is read back.
HandleRequest ==
    /\ pc = "handle_request"
    /\ network > 0
    /\ \E uri \in RequestURIs :
          /\ handled' = Append(handled, uri)
          /\ auth_response' = uri
    /\ network' = network - 1
    /\ Running("server_close")
    /\ UNCHANGED <<inputs, race, load_calls,
                   credentials_file, crypt, app_state, cache,
                   cache_bound, token, redirect_uri, listener, arrived,
                   auth_url_built, browser_opened, exchange_calls, bnas_calls,
                   silent_result, changed_in_run, file_writes, stdout>>

\* Lines 125-130: close the listener, parse the response and look for the
\* code; without it the function returns None.
ServerClose ==
    /\ pc = "server_close"
    /\ listener' = "closed"
    /\ IF has_code(auth_response, redirect_uri)
       THEN Running("exchange")
       ELSE UnpackNone
    /\ UNCHANGED <<inputs, race, load_calls,
                   credentials_file, crypt, app_state, cache,
                   cache_bound, token, redirect_uri, network, arrived,
                   handled, auth_response, auth_url_built, browser_opened,
                   exchange_calls, bnas_calls, silent_result, changed_in_run,
                   file_writes, stdout>>

\* Lines 132-150 and main's lines 250-257: exchange the code.  The provider
\* answers with an access token (msal adds the account to the cache) or
\* without one.
ExchangeCode ==
    /\ pc = "exchange"
    /\ exchange_calls' = exchange_calls + 1
    /\ \E granted \in BOOLEAN :
          IF granted
          THEN /\ cache' = [accounts |-> 1, rev |-> cache.rev + 1,
                            has_state_changed |-> TRUE]
               /\ changed_in_run' = TRUE
               /\ token' = "access_token"
               /\ app_state' = "new"
               /\ Running("emit")
               /\ UNCHANGED stdout
          ELSE /\ Stdout(<<"diag:authorization_failed",
                           "diag:server_returned">>)
               /\ UnpackNone
               /\ UNCHANGED <<cache, changed_in_run, token, app_state>>
    /\ UNCHANGED <<inputs, race, load_calls,
                   credentials_file, crypt, cache_bound,
                   redirect_uri, listener, network, arrived, handled,
                   auth_response, auth_url_built, browser_opened, bnas_calls,
                   silent_result, file_writes>>

\* fetch_token_from_cache (lines 152-161), called at lines 256-257.
\* acquire_token_silent returns a cached token, a token refreshed at the
\* provider (the cache changes), or None; accounts[0] and
\* result["access_token"] raise on an empty list and on None.
FetchTokenFromCache ==
    /\ pc = "fetch_token"
    /\ IF get_accounts_test(cache.accounts)
       THEN IF cache.accounts = 0
            THEN /\ silent_result' = "no_account"
                 /\ Die("IndexError")
                 /\ UNCHANGED <<cache, changed_in_run, token>>
            ELSE \E result \in {"cached", "refreshed", "None"} :
                    /\ silent_result' = result
                    /\ IF result = "None"
                       THEN /\ Die("TypeError")
                            /\ UNCHANGED <<cache, changed_in_run, token>>
                       ELSE /\ token' = "access_token"
                            /\ Running("emit")
                            /\ IF result = "refreshed"
                               THEN /\ cache' = [cache EXCEPT
                                          !.rev = @ + 1,
                                          !.has_state_changed = TRUE]
                                    /\ changed_in_run' = TRUE
                               ELSE UNCHANGED <<cache, changed_in_run>>
       ELSE /\ silent_result' = "no_account"
            /\ Running("emit")
            /\ UNCHANGED <<cache, changed_in_run, token>>
    /\ UNCHANGED <<inputs, race, load_calls,
                   credentials_file, crypt, app_state, cache_bound,
                   flow, bnas_calls, file_writes, stdout>>

\* An emission that saves the changed cache first and prints after it.
Emit_SaveThenPrint ==
    /\ pc = "emit"
    /\ token # "None"
    /\ IF cache.has_state_changed /\ crypt
       THEN LET text == gpg_encrypt(json_dumps(cache))
            IN  /\ credentials_file' =
                      [exists |-> TRUE, enc |-> text.enc, body |-> text.body]
                /\ file_writes' = file_writes + 1
       ELSE UNCHANGED <<credentials_file, file_writes>>
    /\ Stdout(<<IF cmdline_args.encode_xoauth2 THEN "xoauth2" ELSE "token">>)
    /\ cache_bound' = TRUE
    /\ cache' = [cache EXCEPT !.has_state_changed = FALSE]
    /\ Running("persist")
    /\ UNCHANGED <<inputs, race, load_calls, crypt, app_state, token, flow,
                   bnas_calls, silent_result, changed_in_run>>

\* main, lines 259-265: print the token or its XOAUTH2 form.  The local
\* `cache` is bound at line 265, inside the branch that prints the plain
\* token.  encode_xoauth2 (lines 196-206) reads accounts[0].
Emit ==
    /\ pc = "emit"
    /\ IF token # "None"
       THEN IF cmdline_args.encode_xoauth2
            THEN IF cache.accounts = 0
                 THEN Die("IndexError") /\ UNCHANGED <<stdout, cache_bound>>
                 ELSE /\ Stdout(<<"xoauth2">>)
                      /\ Running("persist")
                      /\ UNCHANGED cache_bound
            ELSE /\ Stdout(<<"token">>)
                 /\ cache_bound' = TRUE
                 /\ Running("persist")
       ELSE Running("persist") /\ UNCHANGED <<stdout, cache_bound>>
    /\ UNCHANGED <<inputs, race, load_calls,
                   credentials_file, crypt, app_state, cache, token,
                   flow, bnas_calls, silent_result, changed_in_run,
                   file_writes>>

\* A save that does not ask whether the cache changed.
Persist_AlwaysWrite ==
    /\ pc = "persist"
    /\ IF ~cache_bound
       THEN /\ Die("UnboundLocalError")
            /\ UNCHANGED <<cache, credentials_file, file_writes>>
       ELSE /\ pc' = "done"
            /\ exit_status' = 0
            /\ exit_cause' = "return"
            /\ cache' = [cache EXCEPT !.has_state_changed = FALSE]
            /\ IF crypt
               THEN LET text == gpg_encrypt(json_dumps(cache))
                    IN  /\ credentials_file' =
                              [exists |-> TRUE, enc |-> text.enc,
                               body |-> text.body]
                        /\ file_writes' = file_writes + 1
               ELSE UNCHANGED <<credentials_file, file_writes>>
    /\ UNCHANGED <<inputs, race, load_calls,
                   crypt, app_state, cache_bound, token, flow,
                   bnas_calls, silent_result, changed_in_run, stdout>>

\* A save that reads the cache from app_state and writes the file before
\* the unbound local is met.
Persist_WriteThenFail ==
    /\ pc = "persist"
    /\ IF cache.has_state_changed
       THEN /\ cache' = [cache EXCEPT !.has_state_changed = FALSE]
            /\ IF crypt
               THEN LET text == gpg_encrypt(json_dumps(cache))
                    IN  /\ credentials_file' =
                              [exists |-> TRUE, enc |-> text.enc,
                               body |-> text.body]
                        /\ file_writes' = file_writes + 1
               ELSE UNCHANGED <<credentials_file, file_writes>>
       ELSE UNCHANGED <<cache, credentials_file, file_writes>>
    /\ IF ~cache_bound
       THEN Die("UnboundLocalError")
       ELSE /\ pc' = "done"
            /\ exit_status' = 0
            /\ exit_cause' = "return"
    /\ UNCHANGED <<inputs, race, load_calls,
                   crypt, app_state, cache_bound, token, flow,
                   bnas_calls, silent_result, changed_in_run, stdout>>

\* main, lines 266-275, and the return to sys.exit(main()) at line 278:
\* when the cache changed, serialize it into the config; the encryption and
\* the write (line 275) both sit inside `if crypt:`.
Persist ==
    /\ pc = "persist"
    /\ IF ~cache_bound
       THEN /\ Die("UnboundLocalError")
            /\ UNCHANGED <<cache, credentials_file, file_writes>>
       ELSE /\ pc' = "done"
            /\ exit_status' = 0
            /\ exit_cause' = "return"
            /\ IF cache.has_state_changed
               THEN /\ cache' = [cache EXCEPT !.has_state_changed = FALSE]
                    /\ IF crypt
                       THEN LET text == gpg_encrypt(json_dumps(cache))
                            IN  /\ credentials_file' =
                                      [exists |-> TRUE, enc |-> text.enc,
                                       body |-> text.body]
                                /\ file_writes' = file_writes + 1
                       ELSE UNCHANGED <<credentials_file, file_writes>>
               ELSE UNCHANGED <<cache, credentials_file, file_writes>>
    /\ UNCHANGED <<inputs, race, load_calls,
                   crypt, app_state, cache_bound, token, flow,
                   bnas_calls, silent_result, changed_in_run, stdout>>

Next ==
    \/ ParseArgs
    \/ BuildAppStateFromCredentials
    \/ LoadAndValidateConfig
    \/ StartListener
    \/ RequestArrives
    \/ HandleRequest
    \/ ServerClose
    \/ ExchangeCode
    \/ FetchTokenFromCache
    \/ Emit
    \/ Persist

Spec == Init /\ [][Next]_vars

\* ------------------------------------------- two concurrent invocations
\* Two runs of main() on one credential file, both past line 245 with the
\* same encryption setting, each taking the steps of a run that finds a
\* cache: load, silent refresh, emit, persist.  No step takes a lock; a
\* step is one read or one write of the file.
RaceInit ==
    /\ module_globals = {}
    /\ cmdline_args = [encode_xoauth2 |-> FALSE,
                       encrypt_using_fingerprint |-> FALSE,
                       gpg_home |-> FALSE, no_browser |-> FALSE]
    /\ config_file = [exists |-> FALSE, keys |-> {}, redirect_path |-> <<"/">>]
    /\ credentials_file = NoFile
    /\ pc = "parse_args"
    /\ crypt = FALSE
    /\ app_state = "None"
    /\ cache = EmptyCache
    /\ cache_bound = FALSE
    /\ token = "None"
    /\ redirect_uri = << >>
    /\ listener = "unbound"
    /\ network = 0
    /\ arrived = 0
    /\ handled = << >>
    /\ auth_response = NoURI
    /\ auth_url_built = FALSE
    /\ browser_opened = FALSE
    /\ exchange_calls = 0
    /\ load_calls = 0
    /\ bnas_calls = 0
    /\ silent_result = "not_called"
    /\ changed_in_run = FALSE
    /\ file_writes = 0
    /\ stdout = << >>
    /\ exit_status = -1
    /\ exit_cause = "running"
    /\ \E f \in CredentialFiles, cr \in BOOLEAN,
          e \in [Procs -> BOOLEAN] :
          race = [file |-> f, holds |-> {}, writer |-> 0, wrote |-> {},
                  cr |-> cr, proc |-> [p \in Procs |-> FreshProc(e[p])]]

single == <<module_globals, cmdline_args, config_file, credentials_file, pc,
            crypt, app_state, cache, cache_bound, token, redirect_uri,
            listener, network, arrived, handled, auth_response,
            auth_url_built, browser_opened, exchange_calls, load_calls,
            bnas_calls, silent_result, changed_in_run, file_writes, stdout,
            exit_status, exit_cause>>

\* Lines 163-190 and 248-257 in invocation p: read and parse the file.
\* Without a cache the invocation leaves for the interactive flow, which
\* this model does not follow.
RaceLoad(p) ==
    /\ race.proc[p].pc = "load"
    /\ LET l == load(race.file, race.cr)
       IN  race' = [race EXCEPT
               !.proc[p].pc = IF l.result = "app_state" THEN "fetch"
                              ELSE IF l.result = "None" THEN "interactive"
                              ELSE "done",
               !.proc[p].status = IF l.result = "sys.exit" THEN 1 ELSE @,
               !.proc[p].cache = l.cache,
               !.proc[p].has = IF l.result = "app_state" THEN race.holds
                               ELSE {}]
    /\ UNCHANGED single

\* Lines 152-161 in invocation p: the silent refresh, as in
\* FetchTokenFromCache.  A refresh at the provider is p's cache update.
RaceFetch(p) ==
    /\ race.proc[p].pc = "fetch"
    /\ LET me == race.proc[p]
       IN  IF get_accounts_test(me.cache.accounts) /\ me.cache.accounts = 0
           THEN race' = [race EXCEPT !.proc[p].pc = "done",
                                     !.proc[p].status = 1]
           ELSE \E result \in {"cached", "refreshed", "None"} :
                   race' = [race EXCEPT
                       !.proc[p].pc = IF result = "None" THEN "done"
                                      ELSE "emit",
                       !.proc[p].status = IF result = "None" THEN 1 ELSE @,
                       !.proc[p].token = IF result = "None" THEN @
                                         ELSE "access_token",
                       !.proc[p].cache =
                           IF result = "refreshed"
                           THEN [@ EXCEPT !.rev = @ + 1,
                                          !.has_state_changed = TRUE]
                           ELSE @,
                       !.proc[p].has = IF result = "refreshed"
                                       THEN @ \cup {p} ELSE @]
    /\ UNCHANGED single

\* Lines 259-265 in invocation p: print, and bind `cache` in the branch of
\* the raw token.
RaceEmit(p) ==
    /\ race.proc[p].pc = "emit"
    /\ LET me == race.proc[p]
           t == main_tail(me.encode, me.token, me.cache, race.cr, race.file)
           fails == me.token # "None" /\ me.encode /\ me.cache.accounts = 0
       IN  race' = [race EXCEPT
               !.proc[p].pc = IF fails THEN "done" ELSE "persist",
               !.proc[p].status = IF fails THEN 1 ELSE @,
               !.proc[p].cache_bound = t.cache_bound]
    /\ UNCHANGED single

\* The save of invocation p that first merges what the file holds, as a
\* save under a lock would.
RacePersist_Merge(p) ==
    /\ race.proc[p].pc = "persist"
    /\ LET me == race.proc[p]
           t == main_tail(me.encode, me.token, me.cache, race.cr, race.file)
           written == me.cache_bound /\ me.cache.has_state_changed
                         /\ race.cr
       IN  race' = [race EXCEPT
               !.proc[p].pc = "done",
               !.proc[p].status = t.status,
               !.proc[p].cache.has_state_changed =
                   IF me.cache_bound THEN FALSE ELSE @,
               !.file = t.file,
               !.holds = IF written THEN @ \cup me.has ELSE @,
               !.writer = IF written THEN p ELSE @,
               !.wrote = IF written THEN @ \cup {p} ELSE @]
    /\ UNCHANGED single

\* Lines 266-275 in invocation p: with `cache` bound and changed, the save
\* overwrites the file with p's own cache, whatever the file holds now.
RacePersist(p) ==
    /\ race.proc[p].pc = "persist"
    /\ LET me == race.proc[p]
           t == main_tail(me.encode, me.token, me.cache, race.cr, race.file)
           written == me.cache_bound /\ me.cache.has_state_changed
                         /\ race.cr
       IN  race' = [race EXCEPT
               !.proc[p].pc = "done",
               !.proc[p].status = t.status,
               !.proc[p].cache.has_state_changed =
                   IF me.cache_bound THEN FALSE ELSE @,
               !.file = t.file,
               !.holds = IF written THEN me.has ELSE @,
               !.writer = IF written THEN p ELSE @,
               !.wrote = IF written THEN @ \cup {p} ELSE @]
    /\ UNCHANGED single

RaceNext ==
    \/ \E p \in Procs : RaceLoad(p)
    \/ \E p \in Procs : RaceFetch(p)
    \/ \E p \in Procs : RaceEmit(p)
    \/ \E p \in Procs : RacePersist(p)

RaceSpec == RaceInit /\ [][RaceNext]_vars

\* The steps of the process itself, without the environment's requests.
Step ==
    \/ ParseArgs
    \/ BuildAppStateFromCredentials
    \/ LoadAndValidateConfig
    \/ StartListener
    \/ HandleRequest
    \/ ServerClose
    \/ ExchangeCode
    \/ FetchTokenFromCache
    \/ Emit
    \/ Persist

\* The run under the assumptions that the process keeps being scheduled,
\* that the remote calls return, and that a client connects to the
\* listener while it waits.  handle_request (line 122) has no timeout.
LiveSpec ==
    /\ Init
    /\ [][Next]_vars
    /\ WF_vars(Step)
    /\ WF_vars(RequestArrives)

TypeOK ==
    /\ module_globals \subseteq GlobalNames
    /\ pc \in {"parse_args", "load_credentials", "build_new_app_state",
               "start_listener", "handle_request", "server_close",
               "exchange", "fetch_token", "emit", "persist", "done"}
    /\ listener \in {"unbound", "listening", "closed"}
    /\ network \in 0..MaxRequests
    /\ exit_status \in {-1, 0, 1}
    /\ (pc = "done") = (exit_status # -1)

\* ------------------------------------------------------- claim vocabulary
\* The raw token or its XOAUTH2 form has been printed.
TokenEmitted ==
    \E i \in 1..Len(stdout) : stdout[i] \in {"token", "xoauth2"}

\* main's lines 252-254: "Something went wrong!" followed by sys.exit(1).
ThroughFailureBranch ==
    /\ exit_cause = "sys.exit"
    /\ \E i \in 1..Len(stdout) : stdout[i] = "diag:something_went_wrong"

\* The credential file, read with the run's encryption setting, is not
\* valid JSON.
MalformedCredentials ==
    /\ credentials_file.exists
    /\ \/ ~credentials_file.body.valid
       \/ credentials_file.enc # crypt

\* The credential file is absent, or reads as a JSON object that has no
\* token_cache key.
NoCachedCredentials ==
    \/ ~credentials_file.exists
    \/ /\ credentials_file.enc = crypt
       /\ credentials_file.body.valid
       /\ ~credentials_file.body.has_cache

PastLoad == load_calls > 0

\* The request is not the provider's redirect carrying a code: another
\* path, or no code parameter at all.
LacksCode(uri) ==
    \/ uri.path # redirect_uri
    \/ \A i \in 1..Len(uri.query) : uri.query[i].k # "code"

\* -------------------------------------------------------------------- C1
\* C1: when a loaded cache is refreshed silently and the provider returns
\* no result, the run falls back to build_new_app_state.
C1_SilentMissFallsBack ==
    silent_result = "None" =>
        /\ exit_cause \notin {"TypeError", "IndexError"}
        /\ pc = "build_new_app_state" \/ bnas_calls > 0

\* -------------------------------------------------------------------- C2
\* C2: for a loaded cache with zero accounts fetch_token_from_cache
\* returns nothing and the run goes through the interactive path.
C2_EmptyCacheGoesInteractive ==
    (app_state = "loaded" /\ cache.accounts = 0 /\ pc # "fetch_token") =>
        /\ token = "None"
        /\ exit_cause # "IndexError"
        /\ pc = "build_new_app_state" \/ bnas_calls > 0

\* -------------------------------------------------------------------- C3
\* C3: a run that obtained a token and whose cache reported a change ends
\* with the credential file holding the serialized cache, in plaintext
\* without an encryption backend and encrypted with one.
C3_ChangedCacheIsSaved ==
    (pc = "done" /\ token # "None" /\ changed_in_run) =>
        /\ file_writes > 0
        /\ credentials_file.exists
        /\ credentials_file.enc = crypt
        /\ credentials_file.body = json_dumps(cache).body

C7_StdoutIsOneTokenLine ==
    /\ \A i \in 1..Len(stdout) : stdout[i] \in {"token", "xoauth2"}
    /\ (pc = "done" /\ exit_status = 0) => Len(stdout) = 1

C9_MalformedIsFatalAtLoad ==
    (PastLoad /\ MalformedCredentials) =>
        /\ pc = "done"
        /\ exit_status = 1
        /\ exit_cause = "sys.exit"
        /\ silent_result = "not_called"
        /\ bnas_calls = 0
        /\ token = "None"
        /\ ~TokenEmitted
        /\ file_writes = 0

\* An encrypted run has ended on a credential file that does not decrypt
\* to JSON.
C9_Witness ==
    /\ pc = "done"
    /\ crypt
    /\ MalformedCredentials
    /\ exit_cause = "sys.exit"

C12_SilentHitLeavesFileAlone ==
    silent_result \in {"cached", "refreshed"} =>
        /\ bnas_calls = 0
        /\ ~auth_url_built
        /\ listener = "unbound"
        /\ Len(handled) = 0
        /\ exchange_calls = 0
        /\ token # "None"
        /\ pc = "emit" \/ TokenEmitted
        /\ ~changed_in_run =>
              /\ file_writes = 0
              /\ credentials_file.exists
              /\ credentials_file.enc = crypt
              /\ credentials_file.body = json_dumps(cache).body

\* An encrypted run has ended well on a token served from the cache.
C12_Witness ==
    /\ pc = "done"
    /\ exit_status = 0
    /\ crypt
    /\ silent_result = "cached"
    /\ stdout = <<"token">>

\* ------------------------------------------------------------------- C13
\* C13: the credential file has been written only if this run acquired a
\* token, by code exchange or by a silent refresh, and a run that ended in
\* failure has not written it.
C13_WriteOnlyAfterToken ==
    /\ file_writes > 0 =>
          /\ token # "None"
          /\ exchange_calls > 0 \/ silent_result = "refreshed"
    /\ exit_status = 1 => file_writes = 0

\* The file was written after a code exchange.
C13_Witness ==
    /\ file_writes = 1
    /\ exchange_calls = 1
    /\ token # "None"
    /\ credentials_file.body = json_dumps(cache).body

C18_IdentityAloneEnablesEncryption ==
    (/\ cmdline_args.encrypt_using_fingerprint
     /\ ~cmdline_args.gpg_home
     /\ pc # "parse_args") =>
        /\ crypt
        /\ exit_cause # "UnboundLocalError" \/ load_calls > 0
        /\ pc = "load_credentials" \/ load_calls > 0

\* ------------------------------------------------------------------- C14
\* C14: when a changed cache X is about to be saved, the save leaves a
\* file that loads, under the same encryption setting, to a cache equal
\* to X, and saving the loaded cache again gives the same file.
C14_SaveLoadSaveRoundTrip ==
    (pc = "persist" /\ cache_bound /\ cache.has_state_changed) =>
        LET f1 == save(credentials_file, cache, crypt)
            l == load(f1, crypt)
            f2 == save(f1, l.cache, crypt)
        IN  /\ f1.exists
            /\ l.result = "app_state"
            /\ l.cache.accounts = cache.accounts
            /\ l.cache.rev = cache.rev
            /\ f2 = f1

\* ------------------------------------------------------------------- C16
\* C16: from the state in which the token is in hand, the run with
\* --encode-xoauth2 and the run without it bring the same cache to the
\* persistence step, leave the same credential file and exit with the
\* same status.  (Nothing before line 259 reads the flag, so two runs
\* that differ only in it reach this state alike.)
C16_EncodingChangesOnlyTheLine ==
    pc = "emit" =>
        LET with == main_tail(TRUE, token, cache, crypt, credentials_file)
            without == main_tail(FALSE, token, cache, crypt,
                                 credentials_file)
        IN  /\ with.cache_bound = without.cache_bound
            /\ with.file = without.file
            /\ with.status = without.status

\* ------------------------------------------------------------------- C17
\* The process sits in handle_request with no connection to serve.
Waiting == pc = "handle_request" /\ network = 0

====
